---- MODULE Spec2Model ----
(***************************************************************************)
(* Order fulfilment: OrderWorkflow and its ShippingWorkflow child          *)
(* (app/workflows.py), the five activities (app/activities.py) with the    *)
(* collaborators of app/stubs.py, and the orders / payments / events       *)
(* tables the activities write.                                            *)
(*                                                                         *)
(* An activity execution is a small process: every awaited statement of    *)
(* its body is one step.  The runtime gives each activity call up to       *)
(* MaxAttempts executions; an execution that exceeds its start-to-close    *)
(* timeout is reported to the workflow as failed while its coroutine may   *)
(* still run (a superseded execution) or be cancelled.                     *)
(***************************************************************************)
EXTENDS FiniteSets, Integers, Sequences, TLC

Orders == {"O1", "O2"}
PaymentIds == {"P1", "P2"}
Addresses == {"A1"}
\* addresses of the update_address requests of SpecSurface
LaterAddresses == {"A1", "A2"}
\* reasons of dispatch_failed signals
Reasons == {"carrier strike"}
\* quantities of the line items the order source may hold for an order
ItemLists == {<<>>, <<1>>}
\* timed-out executions whose coroutine goes on running (superseded), per behaviour
MaxSuperseded == 1
\* database statements that raise, per behaviour
MaxDbErrors == 1

\* dispatch_failed signals a client other than the child sends, per run
MaxAdvisories == 1
\* start requests for an order id whose earlier run has returned
MaxRestarts == 1

\* RetryPolicy(maximum_attempts=3), the same for the five activities
MaxAttemptsOther == 4
MaxAttempts == 3

ActivityNames ==
    {"ReceiveOrder", "ValidateOrder", "ChargePayment", "PreparePackage", "DispatchCarrier"}
OrderActivities == {"ReceiveOrder", "ValidateOrder", "ChargePayment"}
ShippingActivities == {"PreparePackage", "DispatchCarrier"}

ErrForced == "Forced failure for testing"
ErrNoItems == "No items to validate"
ErrCanceled == "Canceled"
ErrTimeout == "Activity task timed out"
ErrDb == "connection error"

VARIABLES
    catalog,    \* order source: order id -> quantities of its items
    orders,     \* table orders: rows [id, state]
    payments,   \* table payments: rows [payment_id, order_id, status, amount]
    events,     \* table events, per order_id the sequence of event types
    charges,    \* payment collaborator: invocations per payment id
    wf,         \* OrderWorkflow instances, one per order id
    child,      \* ShippingWorkflow instances, one per order id
    acts,       \* activity executions in progress
    chargeLog,  \* returned ChargePayment calls
    requests,   \* start requests the clients have yet to make
    faults,     \* database errors and superseded executions so far
    hist        \* per order: what has happened to its run so far

vars == <<catalog, orders, payments, events, charges, wf, child, acts, chargeLog,
          requests, faults, hist>>

-----------------------------------------------------------------------------
(* app/stubs.py *)

RECURSIVE SumQty(_)
SumQty(items) == IF items = <<>> THEN 0 ELSE Head(items) + SumQty(Tail(items))

order_received(order_id) == [order_id |-> order_id, items |-> catalog[order_id]]

\* TRUE when order_validated raises ValueError("No items to validate")
order_validated_never_raises(order) == FALSE
order_validated_raises(order) == order.items = <<>>

payment_pending(order) == [status |-> "pending", amount |-> SumQty(order.items)]
payment_charged(order) == [status |-> "charged", amount |-> SumQty(order.items)]

package_prepared == "Package ready"
carrier_dispatched == "Dispatched"

-----------------------------------------------------------------------------
(* the tables, as the SQL statements of app/activities.py use them *)

\* INSERT INTO orders ... ON CONFLICT (id) DO NOTHING
InsertOrder(rows, id) ==
    IF \E r \in rows : r.id = id THEN rows
    ELSE rows \cup {[id |-> id, state |-> "RECEIVED"]}

\* UPDATE orders SET state = s WHERE id = id
UpdateOrderState(rows, id, s) ==
    {IF r.id = id THEN [r EXCEPT !.state = s] ELSE r : r \in rows}

\* SELECT status, amount FROM payments WHERE payment_id = pid
ExistingPaymentNone(rows, pid) == {}
ExistingPayment(rows, pid) == {r \in rows : r.payment_id = pid}

\* INSERT INTO payments ... ON CONFLICT (payment_id) DO NOTHING
InsertPaymentAlways(rows, row) == rows \cup {row}
InsertPayment(rows, row) ==
    IF \E r \in rows : r.payment_id = row.payment_id THEN rows
    ELSE rows \cup {row}

\* INSERT INTO events(order_id, type, payload_json)
InsertEventAnyOrder(ev, id, type) == [o \in Orders |-> Append(ev[o], type)]
InsertEvent(ev, id, type) == [ev EXCEPT ![id] = Append(@, type)]

OrderState(id) ==
    IF \E r \in orders : r.id = id
    THEN (CHOOSE r \in orders : r.id = id).state
    ELSE "NONE"

-----------------------------------------------------------------------------
(* OrderWorkflow / ShippingWorkflow objects *)

NoOrder == [order_id |-> "", items |-> <<>>]
NoResult == [status |-> "none"]

\* OrderWorkflow.__init__; pc is the await the run method is suspended at
NewOrderWorkflow ==
    [order |-> NoOrder, address |-> "{}", canceled |-> FALSE, errors |-> <<>>,
     step |-> "INIT", pc |-> "init", payment_id |-> "", result |-> NoResult]

\* ShippingWorkflow.__init__
NewShippingWorkflow == [pc |-> "none", reason |-> "", ship |-> ""]

\* cause: why the run ended (kind), in or after which activity, at which attempt
NoCause == [kind |-> "", name |-> "", n |-> 0, msg |-> ""]
\* sent: address of the last update_address delivered; reply: what the last
\* status query returned; refused: the runtime has refused a signal or start
\* request; advised: dispatch_failed signals delivered that the child did not
\* send; restarts: runs started for the order id after its first run;
\* approved: the step the run was at when the last approve_order arrived
NoReply == [step |-> "none"]
NewHist ==
    [failures |-> FALSE, invoked |-> {}, cause |-> NoCause,
     sent |-> "{}", reply |-> NoReply, refused |-> FALSE, advised |-> 0, restarts |-> 0,
     approved |-> ""]

\* @workflow.query status
status_never_canceled(w) ==
    [order |-> w.order, step |-> w.step, errors |-> w.errors, canceled |-> FALSE]
status(w) ==
    [order |-> w.order, step |-> w.step, errors |-> w.errors, canceled |-> w.canceled]

\* the three "if self.canceled: raise" checkpoints
CheckpointNever(w) == FALSE
Checkpoint(w) == w.canceled

\* except Exception as e: self.errors.append(str(e)); return {"status": "failed", ...}
FailedStepInit(o, w, msg) ==
    LET errs == Append(w.errors, msg) IN
    [w EXCEPT !.errors = errs, !.pc = "done",
              !.result = [status |-> "failed", order_id |-> o, step |-> "INIT", errors |-> errs]]
Failed(o, w, msg) ==
    LET errs == Append(w.errors, msg) IN
    [w EXCEPT !.errors = errs, !.pc = "done",
              !.result = [status |-> "failed", order_id |-> o, step |-> w.step, errors |-> errs]]

\* return {"status": "completed", ...}
CompletedNoShip(o, w, res) ==
    [w EXCEPT !.pc = "done",
              !.result = [status |-> "completed", order_id |-> o, step |-> w.step,
                          ship |-> "", errors |-> w.errors]]
Completed(o, w, res) ==
    [w EXCEPT !.pc = "done",
              !.result = [status |-> "completed", order_id |-> o, step |-> w.step,
                          ship |-> res, errors |-> w.errors]]

\* _on_dispatch_failed
on_dispatch_failed_dropped(errors, reason) == errors
on_dispatch_failed(errors, reason) == Append(errors, "dispatch_failed: " \o reason)

-----------------------------------------------------------------------------
(* activity executions *)

FirstPc(name) == IF name = "ChargePayment" THEN "check" ELSE "call"

\* results of the ChargePayment calls on pid that have returned so far
Returned(pid) ==
    {[status |-> c.status, amount |-> c.amount, charged |-> c.charged] :
        c \in {x \in chargeLog : x.payment_id = pid}}

NoCharge == [status |-> "", amount |-> 0]

\* a fresh execution (attempt n) of activity name for the run of order o
Execution(o, name, n) ==
    [o |-> o, name |-> name, n |-> n, pc |-> FirstPc(name), live |-> TRUE,
     idem |-> FALSE, charged |-> FALSE, res |-> NoCharge,
     prior |-> IF name = "ChargePayment" THEN Returned(wf[o].payment_id) ELSE {}]

Superseded == {a \in acts : ~a.live}

Tables0 ==
    /\ orders = {}
    /\ payments = {}
    /\ events = [o \in Orders |-> <<>>]
    /\ charges = [p \in PaymentIds |-> 0]
    /\ wf = [o \in Orders |-> NewOrderWorkflow]
    /\ child = [o \in Orders |-> NewShippingWorkflow]
    /\ acts = {}
    /\ chargeLog = {}
    /\ faults = [db |-> 0, superseded |-> 0]
    /\ hist = [o \in Orders |-> NewHist]

\* one order, any content
Init ==
    /\ \E items \in ItemLists : catalog = [o \in Orders |-> items]
    /\ requests = {[order_id |-> "O1", payment_id |-> "P1"]}
    /\ Tables0

\* two orders of different amounts, with the same or with different payment ids
InitPair ==
    /\ catalog = [o \in Orders |-> IF o = "O1" THEN <<1>> ELSE <<2>>]
    /\ \E p \in PaymentIds :
          requests = {[order_id |-> "O1", payment_id |-> "P1"],
                      [order_id |-> "O2", payment_id |-> p]}
    /\ Tables0

-----------------------------------------------------------------------------
(* the control surface, app/api.py *)

\* POST /orders/{order_id}/start: OrderWorkflow.run up to its first await
Start(r) ==
    LET o == r.order_id IN
    /\ wf[o].pc = "init"
    /\ requests' = requests \ {r}
    /\ wf' = [wf EXCEPT ![o] = [@ EXCEPT !.step = "RECEIVE", !.pc = "activity",
                                         !.payment_id = r.payment_id]]
    /\ acts' = acts \cup {Execution(o, "ReceiveOrder", 1)}
    /\ hist' = [hist EXCEPT ![o].invoked = @ \cup {"ReceiveOrder"}]
    /\ UNCHANGED <<catalog, orders, payments, events, charges, child, chargeLog, faults>>

Running(o) == wf[o].pc \in {"activity", "timer", "child"}

\* POST /orders/{order_id}/start for an order id that has a run, workflow id
\* order-{order_id}: start_workflow raises while that run is open; once it has
\* returned, the id is free again and a new run starts from RECEIVE
StartAgain(o, payment_id) ==
    /\ wf[o].pc \notin {"init", "aborted"}
    /\ IF Running(o)
       THEN /\ hist' = [hist EXCEPT ![o].refused = TRUE]
            /\ UNCHANGED <<wf, child, acts>>
       ELSE /\ hist[o].restarts < MaxRestarts
            /\ wf' = [wf EXCEPT ![o] = [NewOrderWorkflow EXCEPT !.step = "RECEIVE",
                                            !.pc = "activity", !.payment_id = payment_id]]
            /\ child' = [child EXCEPT ![o] = NewShippingWorkflow]
            /\ acts' = acts \cup {Execution(o, "ReceiveOrder", 1)}
            /\ hist' = [hist EXCEPT ![o] = [NewHist EXCEPT !.invoked = {"ReceiveOrder"},
                                                           !.restarts = hist[o].restarts + 1]]
    /\ UNCHANGED <<catalog, orders, payments, events, charges, chargeLog, requests, faults>>

\* POST /orders/{order_id}/signals/cancel -> _on_cancel
CancelOrder(o) ==
    /\ Running(o)
    /\ wf' = [wf EXCEPT ![o].canceled = TRUE]
    /\ UNCHANGED <<catalog, orders, payments, events, charges, child, acts, chargeLog,
                   requests, faults, hist>>

\* POST /orders/{order_id}/signals/update-address -> _on_update_address
UpdateAddressOnce(o, address) ==
    /\ Running(o)
    /\ wf' = [wf EXCEPT ![o].address = IF @ = "{}" THEN address ELSE @]
    /\ hist' = [hist EXCEPT ![o].sent = address]
    /\ UNCHANGED <<catalog, orders, payments, events, charges, child, acts, chargeLog,
                   requests, faults>>
UpdateAddress(o, address) ==
    /\ Running(o)
    /\ wf' = [wf EXCEPT ![o].address = address]
    /\ hist' = [hist EXCEPT ![o].sent = address]
    /\ UNCHANGED <<catalog, orders, payments, events, charges, child, acts, chargeLog,
                   requests, faults>>

\* a client signals dispatch_failed(reason) -> _on_dispatch_failed
DispatchFailed(o, reason) ==
    /\ Running(o)
    /\ hist[o].advised < MaxAdvisories
    /\ wf' = [wf EXCEPT ![o].errors = on_dispatch_failed(@, reason)]
    /\ hist' = [hist EXCEPT ![o].advised = @ + 1]
    /\ UNCHANGED <<catalog, orders, payments, events, charges, child, acts, chargeLog,
                   requests, faults>>

\* POST /orders/{order_id}/signals/approve: run() sets no handler for
\* approve_order, the runtime accepts the signal and keeps it undelivered
ApproveEndsPause(o) ==
    /\ Running(o)
    /\ hist' = [hist EXCEPT ![o].approved = wf[o].step]
    /\ IF wf[o].pc = "timer"
       THEN /\ wf' = [wf EXCEPT ![o] = [@ EXCEPT !.step = "PAY", !.pc = "activity"]]
            /\ acts' = acts \cup {Execution(o, "ChargePayment", 1)}
       ELSE UNCHANGED <<wf, acts>>
    /\ UNCHANGED <<catalog, orders, payments, events, charges, child, chargeLog,
                   requests, faults>>
Approve(o) ==
    /\ Running(o)
    /\ hist' = [hist EXCEPT ![o].approved = wf[o].step]
    /\ UNCHANGED <<catalog, orders, payments, events, charges, wf, child, acts, chargeLog,
                   requests, faults>>

\* cancel() / update_address() for a run that has returned: the runtime
\* delivers no signal to a closed run, handle.signal raises in the endpoint
SignalRefused(o) ==
    /\ wf[o].pc = "done"
    /\ hist' = [hist EXCEPT ![o].refused = TRUE]
    /\ UNCHANGED <<catalog, orders, payments, events, charges, wf, child, acts, chargeLog,
                   requests, faults>>

\* GET /orders/{order_id}/status for an order id without a run: handle.query
\* raises, the endpoint raises HTTPException(404, ...)
NotFound == [status_code |-> 404]
QueryOpensRun(o) ==
    /\ wf[o].pc = "init"
    /\ hist' = [hist EXCEPT ![o].reply = NotFound]
    /\ wf' = [wf EXCEPT ![o].step = "RECEIVE"]
    /\ UNCHANGED <<catalog, orders, payments, events, charges, child, acts, chargeLog,
                   requests, faults>>
QueryNotFound(o) ==
    /\ wf[o].pc = "init"
    /\ hist' = [hist EXCEPT ![o].reply = NotFound]
    /\ UNCHANGED <<catalog, orders, payments, events, charges, wf, child, acts, chargeLog,
                   requests, faults>>

\* GET /orders/{order_id}/status -> OrderWorkflow.status, open or closed run
Query(o) ==
    /\ wf[o].pc # "init"
    /\ hist' = [hist EXCEPT ![o].reply = status(wf[o])]
    /\ UNCHANGED <<catalog, orders, payments, events, charges, wf, child, acts, chargeLog,
                   requests, faults>>

-----------------------------------------------------------------------------
(* what the workflows do with the outcome of the activity they await *)

Ended(h, kind, a, msg) ==
    [h EXCEPT !.cause = [kind |-> kind, name |-> a.name, n |-> a.n, msg |-> msg]]

ChargeRecord(a) ==
    [payment_id |-> wf[a.o].payment_id, status |-> a.res.status, amount |-> a.res.amount,
     idempotent |-> a.idem, charged |-> a.charged, prior |-> a.prior]

\* the order argument of the execution: self.order of its workflow
OrderArg(a) == IF a.name = "ReceiveOrder" THEN order_received(a.o) ELSE wf[a.o].order

Replace(a, b) == (acts \ {a}) \cup {b}

\* execution a0, grown into a, returns.  The result of a superseded execution
\* goes nowhere; that of the awaited one resumes the workflow, which runs to
\* its next await.
Returns(a0, a) ==
    LET o == a.o
        w == IF a.name = "ReceiveOrder"
             THEN [wf[o] EXCEPT !.order = OrderArg(a)] ELSE wf[o]
        h == hist[o]
    IN
    /\ chargeLog' = IF a.name = "ChargePayment"
                    THEN chargeLog \cup {ChargeRecord(a)} ELSE chargeLog
    /\ IF ~a.live
       THEN /\ acts' = acts \ {a0}
            /\ UNCHANGED <<wf, child, hist>>
       ELSE IF a.name \in OrderActivities /\ Checkpoint(w)
       THEN /\ wf' = [wf EXCEPT ![o] = Failed(o, w, ErrCanceled)]
            /\ acts' = acts \ {a0}
            /\ hist' = [hist EXCEPT ![o] = Ended(h, "canceled", a, ErrCanceled)]
            /\ UNCHANGED child
       ELSE CASE a.name = "ReceiveOrder" ->
                 /\ wf' = [wf EXCEPT ![o] = [w EXCEPT !.step = "VALIDATE"]]
                 /\ acts' = Replace(a0, Execution(o, "ValidateOrder", 1))
                 /\ hist' = [hist EXCEPT ![o].invoked = @ \cup {"ValidateOrder"}]
                 /\ UNCHANGED child
              [] a.name = "ValidateOrder" ->
                 /\ wf' = [wf EXCEPT ![o] = [w EXCEPT !.step = "MANUAL_REVIEW", !.pc = "timer"]]
                 /\ acts' = acts \ {a0}
                 /\ UNCHANGED <<child, hist>>
              [] a.name = "ChargePayment" ->
                 /\ wf' = [wf EXCEPT ![o] = [w EXCEPT !.step = "SHIP", !.pc = "child"]]
                 /\ child' = [child EXCEPT ![o].pc = "running"]
                 /\ acts' = Replace(a0, Execution(o, "PreparePackage", 1))
                 /\ hist' = [hist EXCEPT ![o].invoked = @ \cup {"PreparePackage"}]
              [] a.name = "PreparePackage" ->
                 /\ acts' = Replace(a0, Execution(o, "DispatchCarrier", 1))
                 /\ hist' = [hist EXCEPT ![o].invoked = @ \cup {"DispatchCarrier"}]
                 /\ UNCHANGED <<wf, child>>
              [] a.name = "DispatchCarrier" ->
                 /\ child' = [child EXCEPT ![o] = [@ EXCEPT !.pc = "done", !.ship = carrier_dispatched]]
                 /\ wf' = [wf EXCEPT ![o] = Completed(o, w, carrier_dispatched)]
                 /\ acts' = acts \ {a0}
                 /\ hist' = [hist EXCEPT ![o] = Ended(h, "completed", a, "")]

\* the awaited execution a fails with message msg: the runtime starts the next
\* attempt, or after MaxAttempts raises in the workflow; kept: the coroutine
\* of a (timed out) goes on running
Fails(a, msg, kept) ==
    LET o == a.o
        rest == (acts \ {a}) \cup (IF kept THEN {[a EXCEPT !.live = FALSE]} ELSE {})
    IN
    IF a.n < MaxAttempts
    THEN /\ acts' = rest \cup {Execution(o, a.name, a.n + 1)}
         /\ hist' = [hist EXCEPT ![o].failures = TRUE]
         /\ UNCHANGED <<wf, child>>
    ELSE /\ acts' = rest
         /\ hist' = [hist EXCEPT ![o] = Ended([@ EXCEPT !.failures = TRUE], "exhausted", a, msg)]
         /\ IF a.name \in OrderActivities
            THEN /\ wf' = [wf EXCEPT ![o] = Failed(o, @, msg)]
                 /\ UNCHANGED child
            ELSE /\ child' = [child EXCEPT ![o] = [@ EXCEPT !.pc = "signal", !.reason = msg]]
                 /\ UNCHANGED wf

-----------------------------------------------------------------------------
(* steps of an activity execution a, app/activities.py *)

\* charge_payment: the idempotency SELECT; a miss goes on to payment_charged
ChargeCheck(a) ==
    /\ a.name = "ChargePayment" /\ a.pc = "check"
    /\ LET pid == wf[a.o].payment_id
           existing == ExistingPayment(payments, pid)
       IN IF existing # {}
          THEN /\ Returns(a, [a EXCEPT !.idem = TRUE,
                                !.res = LET r == CHOOSE r \in existing : TRUE
                                        IN [status |-> r.status, amount |-> r.amount]])
               /\ UNCHANGED charges
          ELSE /\ acts' = Replace(a, [a EXCEPT !.pc = "call", !.charged = TRUE])
               /\ charges' = [charges EXCEPT ![pid] = @ + 1]
               /\ UNCHANGED <<wf, child, chargeLog, hist>>
    /\ UNCHANGED <<catalog, orders, payments, events, requests, faults>>

\* the collaborator call of stubs.py returns
CollaboratorReturns(a) ==
    /\ a.pc = "call"
    /\ ~(a.name = "ValidateOrder" /\ order_validated_raises(OrderArg(a)))
    /\ acts' = Replace(a, [a EXCEPT !.pc = "w1",
                     !.res = IF a.name = "ChargePayment"
                             THEN payment_charged(OrderArg(a)) ELSE @])
    /\ UNCHANGED <<catalog, orders, payments, events, charges, wf, child, chargeLog,
                   requests, faults, hist>>

\* the conn.execute statements after the collaborator call, one per step
LastWrite(name) ==
    CASE name = "ChargePayment" -> "w3"
      [] name = "PreparePackage" -> "w1"
      [] OTHER -> "w2"

EventTypeReceived(name) == "order_received"
EventType(name) ==
    CASE name = "ReceiveOrder" -> "order_received"
      [] name = "ValidateOrder" -> "order_validated"
      [] name = "ChargePayment" -> "payment_charged"
      [] name = "PreparePackage" -> "package_prepared"
      [] name = "DispatchCarrier" -> "carrier_dispatched"

StateWrittenWrong(name) == "RECEIVED"
StateWritten(name) ==
    CASE name = "ValidateOrder" -> "VALIDATED"
      [] name = "ChargePayment" -> "PAID"
      [] name = "DispatchCarrier" -> "SHIPPED"

\* the last statement is the INSERT INTO events; the activity then returns
Write(a) ==
    /\ a.pc \in {"w1", "w2", "w3"}
    /\ LET id == OrderArg(a).order_id IN
       IF a.pc = LastWrite(a.name)
       THEN /\ events' = InsertEvent(events, id, EventType(a.name))
            /\ Returns(a, a)
            /\ UNCHANGED <<orders, payments>>
       ELSE /\ IF a.name = "ReceiveOrder"
               THEN /\ orders' = InsertOrder(orders, id)
                    /\ UNCHANGED payments
               ELSE IF a.name = "ChargePayment" /\ a.pc = "w1"
               THEN /\ payments' = InsertPayment(payments,
                                       [payment_id |-> wf[a.o].payment_id, order_id |-> id,
                                        status |-> a.res.status, amount |-> a.res.amount])
                    /\ UNCHANGED orders
               ELSE /\ orders' = UpdateOrderState(orders, id, StateWritten(a.name))
                    /\ UNCHANGED payments
            /\ acts' = Replace(a, [a EXCEPT !.pc = IF a.pc = "w1" THEN "w2" ELSE "w3"])
            /\ UNCHANGED <<events, wf, child, chargeLog, hist>>
    /\ UNCHANGED <<catalog, charges, requests, faults>>

\* flaky_call raises RuntimeError (in a superseded execution: SupersededEnds)
CollaboratorRaisesLogged(a) ==
    /\ a.live /\ a.pc = "call"
    /\ Fails(a, ErrForced, FALSE)
    /\ events' = InsertEvent(events, a.o, EventType(a.name))
    /\ UNCHANGED <<catalog, orders, payments, charges, chargeLog, requests, faults>>
CollaboratorRaises(a) ==
    /\ a.live /\ a.pc = "call"
    /\ Fails(a, ErrForced, FALSE)
    /\ UNCHANGED <<catalog, orders, payments, events, charges, chargeLog, requests, faults>>

\* order_validated raises ValueError
ValidationRaises(a) ==
    /\ a.live /\ a.name = "ValidateOrder" /\ a.pc = "call"
    /\ order_validated_raises(OrderArg(a))
    /\ Fails(a, ErrNoItems, FALSE)
    /\ UNCHANGED <<catalog, orders, payments, events, charges, chargeLog, requests, faults>>

\* asyncpg.connect or a conn statement raises
DbError(a) ==
    /\ a.live
    /\ ~(a.name = "ChargePayment" /\ a.pc = "call")
    /\ faults.db < MaxDbErrors
    /\ faults' = [faults EXCEPT !.db = @ + 1]
    /\ Fails(a, ErrDb, FALSE)
    /\ UNCHANGED <<catalog, orders, payments, events, charges, chargeLog, requests>>

\* flaky_call sleeps past start_to_close_timeout: the attempt has failed for
\* the workflow; the sleeping coroutine is cancelled, or kept running
Timeout(a, kept) ==
    /\ a.live /\ a.pc = "call"
    /\ kept => faults.superseded < MaxSuperseded
    /\ faults' = IF kept THEN [faults EXCEPT !.superseded = @ + 1] ELSE faults
    /\ Fails(a, ErrTimeout, kept)
    /\ UNCHANGED <<catalog, orders, payments, events, charges, chargeLog, requests>>

\* a superseded execution is cancelled or raises
SupersededEnds(a) ==
    /\ ~a.live
    /\ acts' = acts \ {a}
    /\ UNCHANGED <<catalog, orders, payments, events, charges, wf, child, chargeLog,
                   requests, faults, hist>>

-----------------------------------------------------------------------------
(* OrderWorkflow.run and ShippingWorkflow.run between activities *)

\* await asyncio.sleep(2) returns: the manual review is over
ReviewTimerFires(o) ==
    /\ wf[o].pc = "timer"
    /\ wf' = [wf EXCEPT ![o] = [@ EXCEPT !.step = "PAY", !.pc = "activity"]]
    /\ acts' = acts \cup {Execution(o, "ChargePayment", 1)}
    /\ hist' = [hist EXCEPT ![o].invoked = @ \cup {"ChargePayment"}]
    /\ UNCHANGED <<catalog, orders, payments, events, charges, child, chargeLog,
                   requests, faults>>

\* ShippingWorkflow.run, except branch: signal the parent ...
SignalParent(o) ==
    /\ child[o].pc = "signal"
    /\ wf' = [wf EXCEPT ![o].errors = on_dispatch_failed(@, child[o].reason)]
    /\ child' = [child EXCEPT ![o].pc = "raise"]
    /\ UNCHANGED <<catalog, orders, payments, events, charges, acts, chargeLog,
                   requests, faults, hist>>

\* ... then raise: handle.result() raises in the parent
ChildFailsUnseen(o) ==
    /\ child[o].pc = "raise"
    /\ child' = [child EXCEPT ![o].pc = "failed"]
    /\ UNCHANGED <<catalog, orders, payments, events, charges, wf, acts, chargeLog,
                   requests, faults, hist>>
ChildFails(o) ==
    /\ child[o].pc = "raise"
    /\ child' = [child EXCEPT ![o].pc = "failed"]
    /\ wf' = [wf EXCEPT ![o] = Failed(o, @, child[o].reason)]
    /\ hist' = [hist EXCEPT ![o].cause.kind = "shipping"]
    /\ UNCHANGED <<catalog, orders, payments, events, charges, acts, chargeLog,
                   requests, faults>>

\* collaborators that return, a database that may fail
Execute ==
    \/ \E r \in requests : Start(r)
    \/ \E a \in acts : ChargeCheck(a)
    \/ \E a \in acts : CollaboratorReturns(a)
    \/ \E a \in acts : Write(a)
    \/ \E a \in acts : DbError(a)
    \/ \E o \in Orders : ReviewTimerFires(o)

Next ==
    \/ Execute
    \/ \E a \in acts : CollaboratorRaises(a)
    \/ \E a \in acts : ValidationRaises(a)
    \/ \E a \in acts, kept \in BOOLEAN : Timeout(a, kept)
    \/ \E a \in acts : SupersededEnds(a)
    \/ \E o \in Orders : SignalParent(o)
    \/ \E o \in Orders : ChildFails(o)
    \/ \E o \in Orders : CancelOrder(o)
    \/ \E o \in Orders, address \in Addresses : UpdateAddress(o, address)

\* run_timeout=timedelta(seconds=60) of start() passes before run has returned:
\* the runtime closes the run and its child; nobody awaits the execution in
\* progress any more, whose coroutine is cancelled or kept running
RunTimeout(o, kept) ==
    /\ Running(o)
    /\ kept => (\E a \in acts : a.o = o /\ a.live) /\ faults.superseded < MaxSuperseded
    /\ faults' = IF kept THEN [faults EXCEPT !.superseded = @ + 1] ELSE faults
    /\ wf' = [wf EXCEPT ![o].pc = "aborted"]
    /\ child' = [child EXCEPT ![o].pc = IF @ \in {"running", "signal", "raise"}
                                        THEN "terminated" ELSE @]
    /\ acts' = {a \in acts : a.o # o \/ ~a.live} \cup
                (IF kept THEN {[a EXCEPT !.live = FALSE] : a \in {x \in acts : x.o = o /\ x.live}}
                 ELSE {})
    /\ UNCHANGED <<catalog, orders, payments, events, charges, chargeLog, requests, hist>>

NextApi ==
    \/ Next
    \/ \E o \in Orders, kept \in BOOLEAN : RunTimeout(o, kept)

\* one order with every signal and fault, its run started without a run timeout
Spec == Init /\ [][Next]_vars

\* one order with every signal and fault, its run started by start()
SpecApi == Init /\ [][NextApi]_vars

\* two concurrent orders, no signals, collaborators that return
SpecPair == InitPair /\ [][Execute]_vars

\* a step of the execution the runtime awaits: the worker runs it, or the
\* runtime times it out
ActivityStep(a) ==
    /\ a.live
    /\ \/ ChargeCheck(a) \/ CollaboratorReturns(a) \/ Write(a)
       \/ CollaboratorRaises(a) \/ ValidationRaises(a) \/ DbError(a)
       \/ \E kept \in BOOLEAN : Timeout(a, kept)

\* workers poll both task queues, timers fire, the child workflow is scheduled
Fairness ==
    /\ WF_vars(\E r \in requests : Start(r))
    /\ WF_vars(\E a \in acts : ActivityStep(a))
    /\ WF_vars(\E o \in Orders : ReviewTimerFires(o))
    /\ WF_vars(\E o \in Orders : SignalParent(o) \/ ChildFails(o))

\* the run and what reaches it: every outcome of the awaited execution, the
\* timer, the child, cancel_order; a timed-out coroutine is cancelled
NextLive ==
    \/ Execute
    \/ \E a \in acts : CollaboratorRaises(a)
    \/ \E a \in acts : ValidationRaises(a)
    \/ \E a \in acts : Timeout(a, FALSE)
    \/ \E o \in Orders : SignalParent(o)
    \/ \E o \in Orders : ChildFails(o)
    \/ \E o \in Orders : CancelOrder(o)

\* the control surface and the signal handlers: collaborators that return or
\* raise, every signal, the status query, requests for a run that has returned
NextSurface ==
    \/ \E r \in requests : Start(r)
    \/ \E a \in acts : ChargeCheck(a)
    \/ \E a \in acts : CollaboratorReturns(a)
    \/ \E a \in acts : Write(a)
    \/ \E a \in acts : CollaboratorRaises(a)
    \/ \E a \in acts : ValidationRaises(a)
    \/ \E o \in Orders : ReviewTimerFires(o)
    \/ \E o \in Orders : SignalParent(o)
    \/ \E o \in Orders : ChildFails(o)
    \/ \E o \in Orders : CancelOrder(o)
    \/ \E o \in Orders, address \in LaterAddresses : UpdateAddress(o, address)
    \/ \E o \in Orders, reason \in Reasons : DispatchFailed(o, reason)
    \/ \E o \in Orders : SignalRefused(o)
    \/ \E o \in Orders : Query(o)
    \/ \E o \in Orders : QueryNotFound(o)

SpecSurface == Init /\ [][NextSurface]_vars

\* start requests repeated for one order id, collaborators that return
NextRestart ==
    \/ \E r \in requests : Start(r)
    \/ \E a \in acts : ChargeCheck(a)
    \/ \E a \in acts : CollaboratorReturns(a)
    \/ \E a \in acts : Write(a)
    \/ \E a \in acts : ValidationRaises(a)
    \/ \E o \in Orders : ReviewTimerFires(o)
    \/ \E o \in Orders, p \in PaymentIds : StartAgain(o, p)

SpecRestart == Init /\ [][NextRestart]_vars

\* the manual review: the run with collaborators that return or raise, the
\* timer, cancel_order and approve_order
NextReview ==
    \/ \E r \in requests : Start(r)
    \/ \E a \in acts : ChargeCheck(a)
    \/ \E a \in acts : CollaboratorReturns(a)
    \/ \E a \in acts : Write(a)
    \/ \E a \in acts : CollaboratorRaises(a)
    \/ \E a \in acts : ValidationRaises(a)
    \/ \E o \in Orders : ReviewTimerFires(o)
    \/ \E o \in Orders : SignalParent(o)
    \/ \E o \in Orders : ChildFails(o)
    \/ \E o \in Orders : CancelOrder(o)
    \/ \E o \in Orders : Approve(o)

SpecReview == Init /\ [][NextReview]_vars

\* one order, with workers that keep working
SpecLive == Init /\ [][NextLive]_vars /\ Fairness

TypeOK ==
    /\ \A a \in acts : a.n \in 1..MaxAttempts
    /\ \A o \in Orders : wf[o].pc \in {"init", "activity", "timer", "child", "done", "aborted"}

-----------------------------------------------------------------------------
(* vocabulary of the properties *)

Done(o) == wf[o].pc = "done"

\* some cancel_order or update_address has been delivered to the run of o
Signalled(o) == wf[o].canceled \/ wf[o].address # "{}"

\* ReceiveOrder has returned its payload to the run of o
Received(o) == wf[o].order # NoOrder

StepOf(name) ==
    CASE name = "ReceiveOrder" -> "RECEIVE"
      [] name = "ValidateOrder" -> "VALIDATE"
      [] name = "ChargePayment" -> "PAY"
      [] OTHER -> "SHIP"

\* the activities a run has invoked when it is at step
InvokedUpTo(step) ==
    CASE step = "RECEIVE" -> {"ReceiveOrder"}
      [] step \in {"VALIDATE", "MANUAL_REVIEW"} -> {"ReceiveOrder", "ValidateOrder"}
      [] step = "PAY" -> {"ReceiveOrder", "ValidateOrder", "ChargePayment"}
      [] step = "SHIP" -> ActivityNames
      [] OTHER -> {}

Rank(state) ==
    CASE state = "NONE" -> 0
      [] state = "RECEIVED" -> 1
      [] state = "VALIDATED" -> 2
      [] state = "PAID" -> 3
      [] state = "SHIPPED" -> 4

AttemptErrors == {ErrForced, ErrNoItems, ErrTimeout, ErrDb}

\* the orders state the last step completed by the run of o has written
LastCompletedRank(o) ==
    LET c == hist[o].cause
        written == CASE c.name = "ReceiveOrder" -> 1
                     [] c.name = "ValidateOrder" -> 2
                     [] c.name = "ChargePayment" -> 3
                     [] c.name = "PreparePackage" -> 3
                     [] c.name = "DispatchCarrier" -> 4
                     [] OTHER -> 0
    IN IF c.kind \in {"canceled", "completed"} THEN written
       ELSE IF c.name \in OrderActivities THEN written - 1 ELSE 3

ResultFields == {"status", "order_id", "step", "errors"}

\* a step that leaves the store, the child and the executions as they are
OnlyWorkflowChanges == UNCHANGED <<orders, payments, events, charges, child, acts, chargeLog>>

\* rows of type in the events of one order
Count(seq, type) == Cardinality({i \in DOMAIN seq : seq[i] = type})

\* the five event types in the order of the steps that write them
AllEvents ==
    <<"order_received", "order_validated", "payment_charged", "package_prepared",
      "carrier_dispatched">>

EventRank(type) == CHOOSE i \in DOMAIN AllEvents : AllEvents[i] = type

\* shipping processes the run of o has started: start_child_workflow is called
\* once, with RetryPolicy(maximum_attempts=1)
ShippingRuns(o) == IF child[o].pc = "none" THEN 0 ELSE 1

\* invocations of the payment collaborator for the payment id of o, and
\* whether the payment is recorded
Invocations(o) == charges[wf[o].payment_id]
Paid(o) == \E r \in payments : r.payment_id = wf[o].payment_id

\* the run of o has got the result of ValidateOrder / of ChargePayment
Validated(o) == wf[o].step \in {"MANUAL_REVIEW", "PAY", "SHIP"}
Charged(o) == wf[o].step = "SHIP"

-----------------------------------------------------------------------------
\* C1: an order with at least one item, whose run got no signal and whose
\* activity attempts all succeeded at once, returns the completed record with
\* step SHIP, the DispatchCarrier result and no errors, and its orders row is
\* SHIPPED.
C1_HappyPath ==
    \A o \in Orders :
        (Done(o) /\ wf[o].order.items # <<>> /\ ~Signalled(o) /\ ~hist[o].failures)
        => /\ wf[o].result = [status |-> "completed", order_id |-> o, step |-> "SHIP",
                              ship |-> carrier_dispatched, errors |-> <<>>]
           /\ OrderState(o) = "SHIPPED"

C1_Witness ==
    \E o \in Orders :
        /\ Done(o) /\ wf[o].order.items # <<>> /\ ~Signalled(o) /\ ~hist[o].failures
        /\ wf[o].result.status = "completed"

C2_EndsAtCheckpoint ==
    \A o \in Orders :
        (Done(o) /\ wf[o].canceled /\ wf[o].step \in {"RECEIVE", "VALIDATE", "PAY"})
        => /\ wf[o].result.status = "failed"
           /\ wf[o].result.step = wf[o].step
           /\ hist[o].invoked = InvokedUpTo(wf[o].step)
           /\ hist[o].cause.name \in OrderActivities
           /\ StepOf(hist[o].cause.name) = wf[o].step
           /\ \/ hist[o].cause.kind = "canceled" /\ wf[o].result.errors = <<ErrCanceled>>
              \/ /\ hist[o].cause.kind = "exhausted"
                 /\ wf[o].result.errors = <<hist[o].cause.msg>>
                 /\ hist[o].cause.msg \in AttemptErrors

C2_NeverStartsNext ==
    \A o \in Orders :
        (wf[o].canceled /\ wf[o].step \in {"RECEIVE", "VALIDATE", "PAY"})
        => wf'[o].step = wf[o].step

C3_CancelEndsFailed ==
    \A o \in Orders :
        (Done(o) /\ wf[o].canceled)
        => /\ wf[o].result.status = "failed"
           /\ Rank(OrderState(o)) <= LastCompletedRank(o)

\* C4: a ChargePayment call started after another call on the same payment
\* id has returned gives that call's status and amount, tagged idempotent,
\* and the two calls invoke the payment collaborator at most once.
C4_SecondChargeIdentical ==
    \A c \in chargeLog : \A r \in c.prior :
        /\ c.idempotent
        /\ c.status = r.status /\ c.amount = r.amount
        /\ ~(c.charged /\ r.charged)

\* C5: the payments table never holds two rows with one payment id, and a
\* row once written stays as it is.
C5_Step ==
    /\ \A r \in payments : r \in payments'
    /\ \A r1, r2 \in payments' : r1.payment_id = r2.payment_id => r1 = r2

C5_OneRowPerPayment == [][C5_Step]_vars

\* two calls have charged one payment id; the row is the one written first
C5_Witness ==
    \E c \in chargeLog : \E r \in payments :
        /\ c.charged /\ ~c.idempotent
        /\ r.payment_id = c.payment_id /\ r.order_id # "O1"
        /\ r.amount # c.amount

\* C6: when the activity of RECEIVE, VALIDATE or PAY has failed on its last
\* attempt, the run has ended failed at that step with the message of that
\* attempt as its error, and no activity of a later step is ever invoked.
C6_StepFailure ==
    \A o \in Orders :
        LET c == hist[o].cause IN
        (c.kind = "exhausted" /\ c.name \in OrderActivities)
        => /\ Done(o)
           /\ wf[o].result = [status |-> "failed", order_id |-> o,
                              step |-> StepOf(c.name), errors |-> <<c.msg>>]
           /\ c.msg \in AttemptErrors
           /\ hist[o].invoked = InvokedUpTo(StepOf(c.name))

C6_Witness ==
    \E o \in Orders :
        /\ hist[o].cause.kind = "exhausted" /\ hist[o].cause.name = "ChargePayment"
        /\ Done(o) /\ wf[o].result.step = "PAY"

\* C7: whenever a run is over, its caller has a record with the fields
\* status, order_id, step and errors.
C7_AlwaysStructuredResult ==
    \A o \in Orders :
        wf[o].pc \in {"done", "aborted"}
        => /\ ResultFields \subseteq DOMAIN wf[o].result
           /\ wf[o].result.status \in {"completed", "failed"}

\* C8: a failing shipping process first delivers dispatch_failed(reason) to
\* its parent and then fails; the parent ends failed at SHIP with the errors
\* "dispatch_failed: <reason>" and then the propagated error.
C8_DispatchFailedThenError ==
    \A o \in Orders :
        LET reason == child[o].reason IN
        /\ child[o].pc = "signal" => ~Done(o) /\ wf[o].errors = <<>>
        /\ child[o].pc = "raise"
           => ~Done(o) /\ wf[o].errors = <<"dispatch_failed: " \o reason>>
        /\ child[o].pc = "failed"
           => /\ Done(o) /\ reason \in AttemptErrors
              /\ wf[o].result = [status |-> "failed", order_id |-> o, step |-> "SHIP",
                                 errors |-> <<"dispatch_failed: " \o reason, reason>>]

C8_Witness ==
    \E o \in Orders :
        /\ child[o].pc = "failed" /\ Done(o)
        /\ hist[o].cause.name = "DispatchCarrier"
        /\ Len(wf[o].result.errors) = 2

\* C9: no activity call gets more than 3 attempts; a step fails only when its
\* third attempt has failed; ValidateOrder of an order without items is
\* attempted exactly 3 times before the run fails.
C9_AtMostThree ==
    /\ \A a \in acts : a.n \in 1..3
    /\ \A o \in Orders :
          LET c == hist[o].cause IN
          /\ c.kind \in {"exhausted", "shipping"} => c.n = 3
          /\ child[o].pc \in {"signal", "raise", "failed"} => c.n = 3
          /\ (Done(o) /\ Received(o) /\ wf[o].order.items = <<>> /\ wf[o].step = "VALIDATE")
             => c = [kind |-> "exhausted", name |-> "ValidateOrder", n |-> 3, msg |-> c.msg]

\* a failure reaches a workflow when a third attempt fails, at a checkpoint, or
\* from the failed child; attempt n + 1 starts only as the live attempt n ends
C9_Step ==
    \A o \in Orders :
        LET third == \E a \in acts : a.o = o /\ a.live /\ a.n = 3 IN
        /\ (~Done(o) /\ Done(o)' /\ wf'[o].result.status = "failed")
           => \/ third
              \/ wf[o].canceled /\ wf'[o].errors = <<ErrCanceled>>
              \/ child[o].pc = "raise"
        /\ (child[o].pc = "running" /\ child'[o].pc = "signal") => third
        /\ \A a \in acts' :
              (a.o = o /\ a.n > 1 /\ ~\E b \in acts : b.o = o /\ b.name = a.name /\ b.n = a.n)
              => \E b \in acts : /\ b.o = o /\ b.name = a.name /\ b.n = a.n - 1 /\ b.live
                                 /\ \A c \in acts' : c.live => c = a

NothingAfterValidate(o) ==
    /\ hist[o].invoked \subseteq {"ReceiveOrder", "ValidateOrder"}
    /\ child[o].pc = "none"
    /\ OrderState(o) = "RECEIVED"

C10_EmptyEndsAtValidate ==
    \A o \in Orders :
        (Received(o) /\ wf[o].order.items = <<>>)
        => /\ NothingAfterValidate(o)
           /\ Done(o) => wf[o].result.status = "failed" /\ wf[o].result.step = "VALIDATE"

\* C10 amended: such an order ends failed, at VALIDATE with the error of the
\* third ValidateOrder attempt, or at RECEIVE with "Canceled" when the
\* cancellation flag is set as ReceiveOrder returns; the rest as stated.
C10_EmptyEndsFailed ==
    \A o \in Orders :
        (Received(o) /\ wf[o].order.items = <<>>)
        => /\ NothingAfterValidate(o)
           /\ Done(o)
              => /\ wf[o].result.status = "failed"
                 /\ \/ /\ wf[o].result.step = "VALIDATE"
                       /\ wf[o].result.errors = <<hist[o].cause.msg>>
                       /\ hist[o].cause.msg \in AttemptErrors
                    \/ /\ wf[o].result.step = "RECEIVE"
                       /\ wf[o].canceled
                       /\ wf[o].result.errors = <<ErrCanceled>>

C10_Witness ==
    \E o \in Orders :
        /\ Received(o) /\ wf[o].order.items = <<>> /\ Done(o)
        /\ wf[o].result.step = "VALIDATE" /\ hist[o].failures

\* C11: with activity attempts, the review timer and the child process
\* scheduled fairly, every started run ends completed or failed, and once it
\* has ended its result, step and errors stay as they are.
C11_EndsOnce ==
    \A o \in Orders :
        Done(o) => /\ wf[o].result.status \in {"completed", "failed"}
                   /\ wf'[o].pc = "done"
                   /\ wf'[o].result = wf[o].result
                   /\ wf'[o].step = wf[o].step
                   /\ wf'[o].errors = wf[o].errors

C12_Step ==
    \A r \in orders : \E r2 \in orders' : r2.id = r.id /\ Rank(r2.state) >= Rank(r.state)

C12_StateOnlyForward == [][C12_Step]_vars

\* C13: once a step that writes orders or payments has completed, its
\* mutation is in the table and exactly one event of the step is in the log.
C13_UnitOfWork ==
    \A o \in Orders :
        /\ Received(o)
           => Rank(OrderState(o)) >= 1 /\ Count(events[o], "order_received") = 1
        /\ Validated(o)
           => Rank(OrderState(o)) >= 2 /\ Count(events[o], "order_validated") = 1
        /\ Charged(o)
           => /\ \E r \in payments : r.payment_id = wf[o].payment_id
              /\ Rank(OrderState(o)) >= 3
              /\ Count(events[o], "payment_charged") = 1
        /\ child[o].pc = "done"
           => OrderState(o) = "SHIPPED" /\ Count(events[o], "carrier_dispatched") = 1

\* C14: the events of an order are in the order of its steps, and a run that
\* completed without cancel_order and without a failed attempt has logged
\* exactly the five events, one of each type.
C14_EventsInStepOrder ==
    \A o \in Orders :
        /\ \A i, j \in DOMAIN events[o] :
              i < j => EventRank(events[o][i]) <= EventRank(events[o][j])
        /\ (Done(o) /\ wf[o].result.status = "completed" /\ ~wf[o].canceled
              /\ ~hist[o].failures)
           => events[o] = AllEvents

\* C15: orders fulfilled concurrently, each with its own payment id: every
\* row of orders, payments and events with an order id stems from an activity
\* of the run of that order, and each run whose attempts all succeeded ends
\* completed at SHIP with its own order id, row SHIPPED, its five events.
OwnPaymentIds ==
    \A o1, o2 \in Orders :
        (o1 # o2 /\ wf[o1].pc # "init") => wf[o1].payment_id # wf[o2].payment_id

C15_Independent ==
    OwnPaymentIds =>
    \A o \in Orders :
        /\ \A r \in payments :
              r.order_id = o
              => /\ r.payment_id = wf[o].payment_id
                 /\ r.amount = SumQty(catalog[o])
                 /\ "ChargePayment" \in hist[o].invoked
        /\ \A i \in DOMAIN events[o] :
              /\ \E n \in hist[o].invoked : events[o][i] = EventType(n)
              /\ Count(events[o], events[o][i]) = 1
        /\ OrderState(o) # "NONE" => "ReceiveOrder" \in hist[o].invoked
        /\ OrderState(o) = "SHIPPED" => "DispatchCarrier" \in hist[o].invoked
        /\ (Done(o) /\ ~hist[o].failures)
           => /\ wf[o].result = [status |-> "completed", order_id |-> o, step |-> "SHIP",
                                 ship |-> carrier_dispatched, errors |-> <<>>]
              /\ OrderState(o) = "SHIPPED"
              /\ events[o] = AllEvents
              /\ \E r \in payments : r.order_id = o /\ r.payment_id = wf[o].payment_id

\* both runs have completed, one of them while the other was under way
C15_Witness ==
    /\ OwnPaymentIds
    /\ \A o \in Orders : Done(o) /\ ~hist[o].failures /\ wf[o].result.status = "completed"
    /\ Cardinality(payments) = 2

\* C16 as stated: a run that got cancel_order before RECEIVE completed ends
\* failed with "Canceled" as its first error, its orders row is not beyond
\* RECEIVED and payments has no row for its payment id.
CanceledInReceive(o) == wf[o].canceled /\ wf[o].step = "RECEIVE"

NotBeyondReceived(o) ==
    /\ Rank(OrderState(o)) <= 1
    /\ ~\E r \in payments : r.payment_id = wf[o].payment_id

C16_EndsAtReceive ==
    \A o \in Orders :
        CanceledInReceive(o)
        => /\ NotBeyondReceived(o)
           /\ hist[o].invoked = {"ReceiveOrder"}
           /\ Done(o)
              => /\ wf[o].result.status = "failed" /\ wf[o].result.step = "RECEIVE"
                 /\ \/ /\ hist[o].cause.kind = "canceled" /\ Received(o)
                       /\ wf[o].result.errors = <<ErrCanceled>>
                    \/ /\ hist[o].cause.kind = "exhausted" /\ ~Received(o)
                       /\ wf[o].result.errors = <<hist[o].cause.msg>>
                       /\ hist[o].cause.msg \in AttemptErrors

C16_StaysAtReceive ==
    \A o \in Orders : CanceledInReceive(o) => CanceledInReceive(o)'

C17_Step ==
    \A o \in Orders :
        /\ (child[o].pc = "signal" /\ child'[o].pc = "raise")
           => /\ wf'[o] = [wf[o] EXCEPT !.errors =
                                   Append(@, "dispatch_failed: " \o child[o].reason)]
              /\ UNCHANGED <<orders, payments, events, charges, acts, chargeLog>>
        /\ hist'[o].advised # hist[o].advised
           => /\ \E reason \in Reasons :
                    wf'[o] = [wf[o] EXCEPT !.errors = Append(@, "dispatch_failed: " \o reason)]
              /\ OnlyWorkflowChanges

C17_NotFailedBySignal ==
    \A o \in Orders :
        /\ (Done(o) /\ wf[o].result.status = "failed")
           => hist[o].cause.kind \in {"canceled", "exhausted", "shipping"}
        /\ (Done(o) /\ ~hist[o].failures /\ ~wf[o].canceled /\ wf[o].order.items # <<>>)
           => /\ wf[o].result.status = "completed"
              /\ wf[o].result.errors = wf[o].errors
              /\ Len(wf[o].errors) = hist[o].advised

C17_Advisory == []C17_NotFailedBySignal /\ [][C17_Step]_vars

C17_Witness ==
    \E o \in Orders :
        /\ Done(o) /\ wf[o].result.status = "completed"
        /\ wf[o].result.errors = <<"dispatch_failed: carrier strike">>

\* C18: update_address changes the stored address, to the address of the
\* request, and nothing else; no run is failed by it: a failed run has another
\* cause, and a run with update_address signals but no failed attempt and no
\* cancel_order ends as the run without them: completed at SHIP, row SHIPPED,
\* the five events, one payment row.
C18_Step ==
    \A o \in Orders :
        (wf'[o].address # wf[o].address \/ hist'[o].sent # hist[o].sent)
        => /\ wf'[o] = [wf[o] EXCEPT !.address = hist'[o].sent]
           /\ hist'[o].sent \in LaterAddresses
           /\ OnlyWorkflowChanges

C18_SameRun ==
    \A o \in Orders :
        /\ wf[o].address = hist[o].sent
        /\ (Done(o) /\ wf[o].result.status = "failed")
           => hist[o].cause.kind \in {"canceled", "exhausted", "shipping"}
        /\ (Done(o) /\ ~hist[o].failures /\ ~wf[o].canceled /\ wf[o].order.items # <<>>
              /\ hist[o].advised = 0)
           => /\ wf[o].result = [status |-> "completed", order_id |-> o, step |-> "SHIP",
                                 ship |-> carrier_dispatched, errors |-> <<>>]
              /\ orders = {[id |-> o, state |-> "SHIPPED"]}
              /\ events[o] = AllEvents
              /\ payments = {[payment_id |-> wf[o].payment_id, order_id |-> o,
                               status |-> "charged", amount |-> SumQty(wf[o].order.items)]}

C18_AddressOnly == []C18_SameRun /\ [][C18_Step]_vars

C18_Witness ==
    \E o \in Orders :
        /\ Done(o) /\ wf[o].address = "A2" /\ ~hist[o].failures /\ ~wf[o].canceled
        /\ wf[o].result.status = "completed"

\* C19: a status query changes nothing of the workflow, the executions and
\* the store, and returns order, step, errors and canceled as they are, also
\* for a run that has ended; the flag once set stays set, so every later query
\* returns canceled = TRUE; update_address changes nothing of what it returns.
C19_Step ==
    \A o \in Orders :
        /\ (wf[o].pc # "init" /\ hist'[o].reply # hist[o].reply)
           => /\ hist'[o].reply = [order |-> wf[o].order, step |-> wf[o].step,
                                   errors |-> wf[o].errors, canceled |-> wf[o].canceled]
              /\ wf' = wf
              /\ OnlyWorkflowChanges
        /\ wf[o].canceled => wf'[o].canceled
        /\ wf'[o].address # wf[o].address => status(wf'[o]) = status(wf[o])

C19_QueryIsPure == [][C19_Step]_vars

\* a query after the run has ended failed: it returns the final errors
C19_Witness ==
    \E o \in Orders :
        /\ Done(o) /\ wf[o].result.status = "failed" /\ wf[o].canceled
        /\ hist[o].reply \notin {NoReply, NotFound}
        /\ hist[o].reply.errors = wf[o].result.errors /\ hist[o].reply.canceled

\* C20: cancel_order and update_address sent to a run that has ended are
\* accepted, and leave the result, what status returns and the store as they
\* were.
C20_Accepted == \A o \in Orders : ~hist[o].refused

C20_Step ==
    \A o \in Orders :
        (Done(o) /\ hist'[o].refused # hist[o].refused)
        => /\ wf'[o].result = wf[o].result
           /\ status(wf'[o]) = status(wf[o])
           /\ OnlyWorkflowChanges

C20_SignalsAfterEnd == []C20_Accepted /\ [][C20_Step]_vars

\* C21: a start request for an order id that has a run is answered with that
\* run: no second run is created for the id, the request is not refused, no
\* step is run again and nothing is written to the store.
C21_NoSecondRun ==
    \A o \in Orders :
        /\ hist[o].restarts = 0
        /\ ~hist[o].refused
        /\ \A type \in {EventType(n) : n \in ActivityNames} : Count(events[o], type) <= 1

\* C22: DispatchCarrier is invoked only after PreparePackage has succeeded; a
\* shipping process that fails does so with the error of the last attempt of
\* the step that failed; one that succeeds returns the DispatchCarrier
\* result, which is the ship field of the completed result of its parent.
C22_ShippingSteps ==
    \A o \in Orders :
        LET c == hist[o].cause IN
        /\ "DispatchCarrier" \in hist[o].invoked
           => /\ "PreparePackage" \in hist[o].invoked
              /\ Count(events[o], "package_prepared") >= 1
        /\ \A a \in acts :
              (a.o = o /\ a.live /\ a.name \in ShippingActivities) => child[o].pc = "running"
        /\ child[o].pc \in {"signal", "raise", "failed"}
           => /\ c.name \in ShippingActivities /\ c.n = MaxAttempts
              /\ child[o].reason = c.msg /\ c.msg \in AttemptErrors
              /\ c.name = "PreparePackage" => "DispatchCarrier" \notin hist[o].invoked
              /\ child[o].ship = ""
        /\ child[o].pc = "done"
           => /\ child[o].ship = carrier_dispatched
              /\ c = [kind |-> "completed", name |-> "DispatchCarrier", n |-> c.n, msg |-> ""]
              /\ Done(o) /\ wf[o].result.status = "completed"
              /\ wf[o].result.ship = child[o].ship

C22_Witness ==
    \E o \in Orders :
        /\ child[o].pc = "failed" /\ hist[o].cause.name = "PreparePackage"
        /\ wf[o].result.errors[2] = ErrTimeout

C24_ShippingRetries ==
    \A o \in Orders :
        /\ {"shipping_retry_count", "max_shipping_retries"} \subseteq DOMAIN status(wf[o])
        /\ (Done(o) /\ hist[o].cause.kind = "shipping") => ShippingRuns(o) = 3

\* C25: a status query for an order id without a run is answered with 404,
\* creates no run and changes nothing of the workflows, the executions and
\* the store.
C25_Step ==
    \A o \in Orders :
        (wf[o].pc = "init" /\ hist'[o].reply # hist[o].reply)
        => /\ hist'[o].reply = NotFound
           /\ wf' = wf /\ requests' = requests
           /\ OnlyWorkflowChanges

C25_Unknown ==
    \A o \in Orders : wf[o].pc = "init" => hist[o].reply \in {NoReply, NotFound}

C25_NotFound == []C25_Unknown /\ [][C25_Step]_vars

\* the query for an order id never started, after the run of another has ended
C25_Witness ==
    \E o1, o2 \in Orders :
        /\ wf[o1].pc = "init" /\ hist[o1].reply = NotFound
        /\ Done(o2) /\ orders # {}

\* C26: cancel_order only sets the flag: the executions in progress and the
\* store are untouched.  When the awaited activity of RECEIVE, VALIDATE or PAY
\* then returns, its writes are applied and the run ends at once, failed with
\* "Canceled" at the step of that activity; the flag is never reset and the
\* run never enters a later step with the flag set before that checkpoint.
ReturnsNow(a) ==
    /\ a \notin acts'
    /\ \/ a.pc = LastWrite(a.name) /\ events'[a.o] # events[a.o]
       \/ /\ a.pc = "check" /\ hist'[a.o].cause.kind # "exhausted"
          /\ ~\E b \in acts' : b.o = a.o /\ b.live

C26_Step ==
    \A o \in Orders :
        /\ wf'[o].canceled # wf[o].canceled
           => /\ wf'[o] = [wf[o] EXCEPT !.canceled = TRUE]
              /\ OnlyWorkflowChanges
        /\ \A a \in acts :
              (a.o = o /\ a.live /\ a.name \in OrderActivities /\ wf[o].canceled
                /\ ReturnsNow(a))
              => /\ a.pc # "check" => events'[o] = Append(events[o], EventType(a.name))
                 /\ wf'[o].pc = "done"
                 /\ wf'[o].result = [status |-> "failed", order_id |-> o,
                                      step |-> StepOf(a.name), errors |-> <<ErrCanceled>>]
                 /\ wf[o].step = StepOf(a.name)
        /\ (wf[o].canceled /\ wf[o].step \in {"RECEIVE", "VALIDATE", "PAY"})
           => wf'[o].canceled /\ wf'[o].step = wf[o].step

Sharing(p) == {o \in Orders : wf[o].pc # "init" /\ wf[o].payment_id = p}

C27_DoubleChargeOneRow ==
    \A p \in PaymentIds :
        /\ Cardinality({r \in payments : r.payment_id = p}) <= 1
        /\ (\A o \in Sharing(p) : ~hist[o].failures)
           => /\ charges[p] <= Cardinality(Sharing(p))
              /\ charges[p] = Cardinality({a \in acts : a.charged /\ a.o \in Sharing(p)})
                             + Cardinality({o \in Sharing(p) :
                                              \E c \in chargeLog : /\ c.payment_id = p
                                                                    /\ c.charged
                                                                    /\ c.amount = SumQty(catalog[o])})

\* the double charge: both runs have completed without a failed attempt
C27_Witness ==
    /\ charges["P1"] = 2
    /\ \A o \in Orders : Done(o) /\ ~hist[o].failures /\ wf[o].payment_id = "P1"
    /\ Cardinality(payments) = 1

\* C28 as stated: once cancel_order has been delivered to a run at RECEIVE,
\* VALIDATE or MANUAL_REVIEW, the payment collaborator is never invoked for
\* the order and no payment row is written.  The delivery is observed through
\* the status query: a reply that showed the run cancelled at one of these
\* steps stays on record while the run goes on.
CanceledBefore(o, steps) == wf[o].canceled /\ wf[o].step \in steps

NotCharged(o) ==
    wf[o].payment_id \in PaymentIds => Invocations(o) = 0 /\ ~Paid(o)

C28_Step ==
    \A o \in Orders :
        /\ CanceledBefore(o, {"RECEIVE", "VALIDATE"})
           => wf'[o].canceled /\ wf'[o].step = wf[o].step
        /\ (CanceledBefore(o, {"MANUAL_REVIEW"}) /\ wf'[o].step # wf[o].step)
           => /\ wf'[o].step = "PAY" /\ wf'[o].canceled /\ wf'[o].pc = "activity"
              /\ \E a \in acts' \ acts : a.o = o /\ a.name = "ChargePayment" /\ a.live

C28_ChargedOnlyAfterReview ==
    \A o \in Orders :
        /\ CanceledBefore(o, {"RECEIVE", "VALIDATE"})
           => NotCharged(o) /\ "ChargePayment" \notin hist[o].invoked
        /\ CanceledBefore(o, {"MANUAL_REVIEW"}) => "ChargePayment" \notin hist[o].invoked
        /\ (Done(o) /\ wf[o].step = "PAY" /\ hist[o].cause.kind = "canceled")
           => Paid(o) /\ wf[o].result.status = "failed"
                      /\ wf[o].result.errors[Len(wf[o].result.errors)] = ErrCanceled

C29_PaidAtShip ==
    \A o \in Orders :
        Charged(o)
        => /\ OrderState(o) \in {"PAID", "SHIPPED"}
           /\ Count(events[o], "payment_charged") >= 1

\* C30: the orders row of a run that has ended failed is not SHIPPED.
C30_ShippedOnlyIfCompleted ==
    \A o \in Orders :
        (Done(o) /\ wf[o].result.status = "failed") => OrderState(o) # "SHIPPED"

\* activity executions of order o whose coroutine is running on a worker
InProgress(o) == {a \in acts : a.o = o}

\* C31: at any time at most one activity execution of an order is in
\* progress, superseded attempts of a timed-out activity included.
C31_OneExecution == \A o \in Orders : Cardinality(InProgress(o)) <= 1

\* the run of o ended failed after the last attempt of its activity raised in
\* the collaborator or timed out
CollaboratorExhausted(o) ==
    /\ Done(o) /\ wf[o].result.status = "failed"
    /\ hist[o].cause.kind \in {"exhausted", "shipping"}
    /\ hist[o].cause.msg \in {ErrForced, ErrNoItems, ErrTimeout}
    /\ faults.db = 0

\* C32: a run that ended failed at step S because the collaborator raised or
\* timed out in every attempt leaves the orders row in the state written by
\* the last step completed before S, and a run failed at PAY leaves no
\* payment row.
C32_FailedLeavesLastState ==
    \A o \in Orders :
        CollaboratorExhausted(o)
        => /\ Rank(OrderState(o)) = LastCompletedRank(o)
           /\ hist[o].cause.name = "ChargePayment" => ~Paid(o)

\* the run of o has ended failed at step SHIP
FailedAtShip(o) ==
    Done(o) /\ wf[o].result.status = "failed" /\ wf[o].result.step = "SHIP"

\* the payments rows of the payment id of o
PaymentRows(o) == {r \in payments : r.payment_id = wf[o].payment_id}

C33_Charged ==
    \A o \in Orders :
        FailedAtShip(o)
        => /\ Cardinality(PaymentRows(o)) = 1
           /\ \A r \in PaymentRows(o) : r.status = "charged"

C33_Step ==
    \A o \in Orders :
        FailedAtShip(o) => FailedAtShip(o)' /\ PaymentRows(o)' = PaymentRows(o)

\* C33: a run that has ended failed at step SHIP has the payment row of its
\* payment id, with status charged, and no later step removes or changes it.
C33_PaymentKept == []C33_Charged /\ [][C33_Step]_vars

\* the shipping process failed after a charge by this run
C33_Witness ==
    \E o \in Orders :
        /\ FailedAtShip(o) /\ hist[o].cause.kind = "shipping"
        /\ Invocations(o) >= 1 /\ Paid(o)

\* approve_order has just been delivered to the run of o
Approved(o) == hist'[o].approved # hist[o].approved

C34_Pause ==
    \A o \in Orders :
        /\ wf[o].step = "MANUAL_REVIEW"
           => /\ wf[o].pc = "timer" /\ InProgress(o) = {}
              /\ hist[o].invoked = InvokedUpTo("MANUAL_REVIEW")
        /\ Done(o) => wf[o].result.step # "MANUAL_REVIEW"

C34_Step ==
    \A o \in Orders :
        /\ (wf[o].step = "MANUAL_REVIEW" /\ wf'[o] # wf[o] /\ wf'[o].canceled = wf[o].canceled)
           => /\ wf'[o] = [wf[o] EXCEPT !.step = "PAY", !.pc = "activity"]
              /\ acts' = acts \cup {Execution(o, "ChargePayment", 1)}
              /\ hist'[o].approved = hist[o].approved
        /\ wf[o].step = "MANUAL_REVIEW" => wf'[o].step \in {"MANUAL_REVIEW", "PAY"}
        /\ Approved(o)
           => UNCHANGED <<catalog, orders, payments, events, charges, wf, child, acts,
                          chargeLog, requests, faults>>

\* C34: during MANUAL_REVIEW the run waits on its timer with no activity
\* invoked or in progress, it leaves the step only for PAY by starting
\* ChargePayment, cancelled or not, and the delivery of approve_order changes
\* neither the run, nor its executions, nor the store.
C34_FixedPause == []C34_Pause /\ [][C34_Step]_vars

\* approve_order arrived during the pause of a run that went on to complete
C34_Witness ==
    \E o \in Orders :
        /\ hist[o].approved = "MANUAL_REVIEW"
        /\ Done(o) /\ wf[o].result.status = "completed"

\* C35: however often ReceiveOrder has run for an order id, the store is as
\* after one invocation: one orders row and one order_received event.
C35_ReceiveIdempotent ==
    \A o \in Orders :
        /\ Cardinality({r \in orders : r.id = o}) <= 1
        /\ Count(events[o], "order_received") <= 1

\* executions whose coroutine takes this step: it moves on or ends
Stepping == acts \ acts'

C36_Step ==
    \A a \in Stepping :
        a.name = "PreparePackage"
        => /\ orders' = orders /\ payments' = payments /\ charges' = charges
           /\ \/ events' = events
              \/ /\ a.pc = "w1"
                 /\ events' = [events EXCEPT ![a.o] = Append(@, "package_prepared")]
           /\ (\E b \in acts' \ acts : b.o = a.o /\ b.name = "DispatchCarrier")
              => a.live /\ events' # events

\* C36: a step of a PreparePackage execution, successful or failing, leaves
\* the orders and payments rows as they are; the execution that succeeds
\* appends one package_prepared event for its order, and that is all any
\* PreparePackage execution writes.
C36_PrepareOnlyLogs == [][C36_Step]_vars

\* PreparePackage has failed once and succeeded once, DispatchCarrier is next
C36_Witness ==
    \E o \in Orders :
        /\ hist[o].failures /\ Count(events[o], "package_prepared") = 1
        /\ OrderState(o) = "PAID" /\ Paid(o)
        /\ \E a \in acts : a.o = o /\ a.name = "DispatchCarrier" /\ a.pc = "call"
        /\ Count(events[o], "payment_charged") = 1

\* the execution has not got past its collaborator call
BeforeWrites(a) == a.pc \in {"check", "call"}

C37_Step ==
    \A a \in Stepping : BeforeWrites(a) => UNCHANGED <<orders, payments, events>>

\* C37: an execution of any of the five activities writes nothing up to and
\* including its collaborator call, so an attempt whose collaborator call
\* raises leaves orders, payments and events as they were.
C37_RaisingAttemptWritesNothing == [][C37_Step]_vars

\* DispatchCarrier raised in the collaborator in its last attempt: the row is
\* still PAID and there is no carrier_dispatched event
C37_Witness ==
    \E o \in Orders :
        /\ hist[o].cause.name = "DispatchCarrier" /\ hist[o].cause.msg = ErrForced
        /\ hist[o].cause.n = MaxAttempts /\ faults = [db |-> 0, superseded |-> 0]
        /\ OrderState(o) = "PAID" /\ Count(events[o], "carrier_dispatched") = 0
        /\ Count(events[o], "package_prepared") = 1

\* the run of o starts its shipping process in this step
StartsChild(o) == child[o].pc # "running" /\ child'[o].pc = "running"

C38_Step ==
    \A o \in Orders :
        /\ StartsChild(o)
           => /\ child[o].pc = "none" /\ ~wf[o].canceled
              /\ wf[o].step = "PAY" /\ wf'[o].step = "SHIP"
              /\ \E a \in Stepping :
                    /\ a.o = o /\ a.name = "ChargePayment" /\ a.live
                    /\ a.pc \in {"check", LastWrite("ChargePayment")}
        /\ child[o].pc # "none" => child'[o].pc # "none"
        /\ ( /\ \E b \in acts' : b.o = o /\ b.name = "PreparePackage" /\ b.n = 1
             /\ ~\E a \in acts : a.o = o /\ a.name = "PreparePackage" /\ a.n = 1 )
           => StartsChild(o)

C38_Started ==
    \A o \in Orders :
        /\ child[o].pc # "none" => wf[o].step = "SHIP"
        /\ child[o].pc = "failed" => Done(o)
        /\ wf[o].step # "SHIP" => ShippingActivities \cap hist[o].invoked = {}

Steps == <<"INIT", "RECEIVE", "VALIDATE", "MANUAL_REVIEW", "PAY", "SHIP">>

StepRank(step) == CHOOSE i \in DOMAIN Steps : Steps[i] = step

LastOf(seq) == seq[Len(seq)]

C39_WellFormed ==
    \A o \in Orders :
        LET r == wf[o].result IN
        /\ \E i \in DOMAIN Steps : Steps[i] = wf[o].step
        /\ Done(o)
           => /\ r.status \in {"completed", "failed"}
              /\ r.step = wf[o].step /\ r.errors = wf[o].errors
              /\ r.status = "completed" => r.step = "SHIP"
              /\ r.status = "failed"
                 => /\ r.errors # <<>>
                    /\ LastOf(r.errors) = hist[o].cause.msg
                    /\ r.step \in {"RECEIVE", "VALIDATE", "PAY", "SHIP"}
                    /\ LastOf(r.errors) = ErrCanceled => r.step \in {"RECEIVE", "VALIDATE", "PAY"}

C39_Step ==
    \A o \in Orders :
        LET i == StepRank(wf[o].step) IN
        /\ StepRank(wf'[o].step) \in {i, i + 1}
        /\ Done(o) => wf'[o] = wf[o]

\* C39: the step of a run is one of the six step names and moves only to the
\* next one; a completed result has step SHIP; a failed result has the
\* terminating cause as the last of its errors and a step among RECEIVE,
\* VALIDATE, PAY, SHIP, and RECEIVE, VALIDATE or PAY when the cause is
\* "Canceled".
C39_StepsAndResults == []C39_WellFormed /\ [][C39_Step]_vars

\* a run cancelled at PAY after a dispatch_failed signal had been delivered
C39_Witness ==
    \E o \in Orders :
        /\ Done(o) /\ wf[o].result.status = "failed" /\ wf[o].result.step = "PAY"
        /\ Len(wf[o].result.errors) = 2 /\ LastOf(wf[o].result.errors) = ErrCanceled

====
